---- MODULE Spec2Model ----
(***************************************************************************)
(* A model of lineageprofiler.py: the plate registry (PlateDesign), the    *)
(* Timeline with its sorted-insertion procedure and its queries, and the   *)
(* lineage tree built by Timeline.get_lineage_tree.                        *)
(*                                                                         *)
(* Representation.                                                         *)
(*  - A well id is the Python string produced by '%s%02d': it is modelled  *)
(*    as the sequence of its characters (one-character strings), so that   *)
(*    the formatting and the byte-wise string order are computed.          *)
(*  - An Event is a record; the field oid stands for the identity of the   *)
(*    Python object (events are hashed and compared by identity).  It is   *)
(*    the ordinal of the add_event call that created the event.            *)
(*  - A Python set, and a list built by list(set(..)) / tuple(set(..)), is *)
(*    a TLA+ set: its iteration order is not fixed by the program.  Where  *)
(*    the program turns that order into data (the positional ids of the    *)
(*    lineage nodes) every order is a possible outcome.                    *)
(*  - plates is PlateDesign.plates, the class-level registry shared by all   *)
(*    timelines (Timeline.plates is assigned once and never read).         *)
(*  - ret is the outcome of the last call: its name, arguments, whether it *)
(*    returned (ok) or raised, and the value returned / exception raised.  *)
(*  - A lineage tree is the set of its nodes; a node names its parent and  *)
(*    its children by their ids.  The line LineageNode.__init__ prints is  *)
(*    not part of the state.                                               *)
(***************************************************************************)
EXTENDS Integers, Sequences, FiniteSets, TLC

VARIABLES plates, events, ret

vars == <<plates, events, ret>>

\* ------------------------------------------------------------------ bounds
\* The largest number of add_event calls on the timeline.
MaxEvents == 3

\* Timepoints passed to add_event and to the queries.
Timepoints == 1..3

\* Plate ids and plate formats passed to add_plate / add_event.
PlateIds == {"fred"}

\* ------------------------------------------------------- module constants
alphabet == <<"A","B","C","D","E","F","G","H","I","J","K","L","M",
              "N","O","P","Q","R","S","T","U","V","W","X","Y","Z",
              "a","b","c","d","e","f","g","h","i","j","k","l","m",
              "n","o","p","q","r","s","t","u","v","w","x","y","z">>

P6 == <<2, 3>>

\* A format that is not one of the named ones: three rows of two wells.
Tall == <<3, 2>>

PlateFormats == {P6, Tall}

\* The stock label given to Timeline(stock); it is the id of the root node.
Stock == "U2OS"

\* ----------------------------------------------------- string primitives
Digits == <<"0","1","2","3","4","5","6","7","8","9">>

\* The characters of well ids in byte order: digits, upper case, lower case.
ByteOrder == Digits \o alphabet

Ord(ch) == CHOOSE i \in 1..Len(ByteOrder) : ByteOrder[i] = ch

Min2(a, b) == IF a < b THEN a ELSE b

\* Python's str < str: byte-wise lexicographic, a proper prefix is smaller.
RECURSIVE StrLess(_, _)
StrLess(s, t) ==
    IF Len(t) = 0 THEN FALSE
    ELSE IF Len(s) = 0 THEN TRUE
    ELSE IF Ord(Head(s)) # Ord(Head(t)) THEN Ord(Head(s)) < Ord(Head(t))
    ELSE StrLess(Tail(s), Tail(t))

\* '%d' % n for n >= 0
RECURSIVE Decimal(_)
Decimal(n) ==
    IF n < 10 THEN <<Digits[n + 1]>>
    ELSE Decimal(n \div 10) \o <<Digits[(n % 10) + 1]>>

\* '%02d' % n : at least two digits, zero padded, never truncated
Format02d(n) == IF n < 10 THEN <<"0">> \o Decimal(n) ELSE Decimal(n)

\* '%s%02d' % (ch, num)
WellId(ch, num) == <<ch>> \o Format02d(num)

\* --------------------------------------------------------- PlateDesign
\* PlateDesign.get_well_ids: row-major list of the well ids of a format.
WellIdList(plate_format) ==
    LET rows == Min2(plate_format[1], Len(alphabet))
        cols == plate_format[2]
    IN  [k \in 1..(rows * cols) |->
            WellId(alphabet[((k - 1) \div cols) + 1], ((k - 1) % cols) + 1)]

Range(s) == {s[i] : i \in 1..Len(s)}

\* The wells add_event is called with.
A01 == WellId("A", 1)
A02 == WellId("A", 2)
C01 == WellId("C", 1)

WellChoices == { {}, {A01, A02}, {A02, C01} }

\* The wells get_events_in_well is asked about.
QueryWells == {A02, C01}

Actions == {"treatment1"}

\* -------------------------------------------------------------- Timeline
\* Event.__init__
Event(oid, timepoint, action, plate_id, well_ids) ==
    [oid |-> oid, timepoint |-> timepoint, action |-> action,
     plate |-> plate_id, wells |-> well_ids]

\* The loop of add_event: i runs from len-1 down to 0 (Python indices); the
\* event is inserted at i+1 for the first i whose event is strictly earlier,
\* or at 1 when i reaches 0.
InsertBreak(evs, tp, i) == tp > evs[i + 1].timepoint \/ i = 0

RECURSIVE InsertIndex(_, _, _)
InsertIndex(evs, tp, i) ==
    IF InsertBreak(evs, tp, i) THEN i + 1 ELSE InsertIndex(evs, tp, i - 1)

\* list.insert(p, evt)
ListInsert(evs, p, evt) ==
    SubSeq(evs, 1, p) \o <<evt>> \o SubSeq(evs, p + 1, Len(evs))

Inserted(evs, evt) ==
    IF Len(evs) = 0 THEN <<evt>>
    ELSE ListInsert(evs, InsertIndex(evs, evt.timepoint, Len(evs) - 1), evt)

\* A variant of UniqueTimepoints without the sort: first occurrences in list order.
RECURSIVE FirstOccurrences(_, _)
FirstOccurrences(evs, k) ==
    IF k = 0 THEN <<>>
    ELSE LET sofar == FirstOccurrences(evs, k - 1)
         IN  IF \E i \in 1..Len(sofar) : sofar[i] = evs[k].timepoint
             THEN sofar ELSE Append(sofar, evs[k].timepoint)

UniqueTimepointsUnsorted(evs) == FirstOccurrences(evs, Len(evs))

\* sorted(S) for a set of integers
RECURSIVE SortedInts(_)
SortedInts(S) ==
    IF S = {} THEN <<>>
    ELSE LET m == CHOOSE x \in S : \A y \in S : x <= y
         IN  <<m>> \o SortedInts(S \ {m})

UniqueTimepoints(evs) == SortedInts({evs[i].timepoint : i \in 1..Len(evs)})

\* SelectSeq with the test written inline
EventsAtTimepoint(evs, timepoint) ==
    LET AtTp(e) == e.timepoint = timepoint IN SelectSeq(evs, AtTp)

EventsInWell(evs, well, timepoint) ==
    LET InWell(e) == well \in e.wells
    IN  SelectSeq(EventsAtTimepoint(evs, timepoint), InWell)

\* timepoint = 0 stands for the default argument None
NoTimepoint == 0

TimelineWellIds(evs, timepoint) ==
    UNION {evs[i].wells : i \in {j \in 1..Len(evs) :
               evs[j].timepoint = timepoint \/ timepoint = NoTimepoint}}

\* A variant of DictAppend that assigns [item] also when the key is present.
DictAppendOverwrite(d, key, item) ==
    [k \in DOMAIN d \cup {key} |-> IF k = key THEN <<item>> ELSE d[k]]

\* d[key] = [item] when the key is absent, d[key] += [item] otherwise
DictAppend(d, key, item) ==
    IF key \in DOMAIN d
    THEN [d EXCEPT ![key] = Append(@, item)]
    ELSE [k \in DOMAIN d \cup {key} |-> IF k = key THEN <<item>> ELSE d[k]]

EmptyDict == [k \in {} |-> <<>>]

\* set([tuple(set(d[k])) for k in d.keys()]): the groups, each without order
DictGroups(d) == {Range(d[k]) : k \in DOMAIN d}

\* A variant of PermWellLoop that walks the event's own wells, not the plate's.
PermWellLoopListed(d, event, wells, k) ==
    LET Listed == event.wells
        RECURSIVE Walk(_, _)
        Walk(dd, left) ==
            IF left = {} THEN dd
            ELSE LET w == CHOOSE x \in left : TRUE
                 IN  Walk(DictAppend(dd, w, event), left \ {w})
    IN  Walk(d, Listed)

\* get_event_permutations, inner loop: the wells of the event's plate that
\* the event lists get the event appended.
RECURSIVE PermWellLoop(_, _, _, _)
PermWellLoop(d, event, wells, k) ==
    IF k > Len(wells) THEN d
    ELSE PermWellLoop(IF wells[k] \in event.wells
                      THEN DictAppend(d, wells[k], event) ELSE d,
                      event, wells, k + 1)

\* get_event_permutations, outer loop over the events at the timepoint
RECURSIVE PermEventLoop(_, _, _, _)
PermEventLoop(d, regs, evs, k) ==
    IF k > Len(evs) THEN d
    ELSE PermEventLoop(PermWellLoop(d, evs[k], WellIdList(regs[evs[k].plate]), 1),
                       regs, evs, k + 1)

\* PlateDesign.get_plate_format raises KeyError for an unknown plate id
PermRaises(regs, evs, timepoint) ==
    \E i \in 1..Len(evs) :
        evs[i].timepoint = timepoint /\ evs[i].plate \notin DOMAIN regs

EventPermutations(regs, evs, timepoint) ==
    DictGroups(PermEventLoop(EmptyDict, regs, EventsAtTimepoint(evs, timepoint), 1))

\* get_well_permutations: the dictionary from event tuples to lists of wells
WellSignature(evs, well, timepoint) == EventsInWell(evs, well, timepoint)

RECURSIVE WellPermLoop(_, _, _, _, _)
WellPermLoop(d, evs, timepoint, wells, k) ==
    IF k > Len(wells) THEN d
    ELSE WellPermLoop(DictAppend(d, WellSignature(evs, wells[k], timepoint), wells[k]),
                      evs, timepoint, wells, k + 1)

WellPermutations(evs, timepoint, plate_format) ==
    DictGroups(WellPermLoop(EmptyDict, evs, timepoint, WellIdList(plate_format), 1))

\* ---------------------------------------------------------- lineage tree
\* LineageNode.__init__; parent is the parent's id, <<>> for None.  children
\* holds the ids of the nodes added by add_child, in the order added.
NoParent == <<>>

LineageNode(parent, id, wells, timepoint) ==
    [parent |-> parent, id |-> id, wells |-> wells, timepoint |-> timepoint,
     children |-> <<>>]

\* '%s:%s' % (parent.id, i): the id is the sequence of its ':'-separated parts
ChildId(parent_id, i) == Append(parent_id, i)

\* The geometry attach_child_nodes partitions with.
TreeFormat == P6

\* A variant of Subwells that keeps the empty intersections.
SubwellsKeepEmpty(evs, parent_wells, timepoint) ==
    {g \cap parent_wells : g \in WellPermutations(evs, timepoint, TreeFormat)}

\* attach_child_nodes: the non-empty intersections of the parent's wells with
\* the groups of the partition at the timepoint.
Subwells(evs, parent_wells, timepoint) ==
    {g \cap parent_wells : g \in WellPermutations(evs, timepoint, TreeFormat)} \ {{}}

\* The orders in which a set can be iterated.
Orderings(S) ==
    {f \in [1..Cardinality(S) -> S] : \A i, j \in 1..Cardinality(S) : f[i] = f[j] => i = j}

\* A variant of ChildIndex that passes over one timepoint.
ChildIndexSkip(tp_idx) == tp_idx + 2

\* build_tree calls attach_child_nodes(parent, tp_idx+1) and recurses with tp_idx+1
ChildIndex(tp_idx) == tp_idx + 1

\* One subtree per child: every way of choosing one from each set.
RECURSIVE Combine(_, _)
Combine(sets, k) ==
    IF k > Len(sets) THEN {{}}
    ELSE {t \cup rest : t \in sets[k], rest \in Combine(sets, k + 1)}

\* build_tree(parent, tp_idx): the trees (sets of nodes) it can build below and
\* including parent, one for each iteration order of the partitions.  tp_idx
\* is the Python (0-based) index into get_unique_timepoints().
RECURSIVE BuildTree(_, _, _)
BuildTree(evs, parent, tp_idx) ==
    LET utp == UniqueTimepoints(evs)
        idx == ChildIndex(tp_idx)
    IN  IF Len(utp) <= idx THEN {{parent}}
        ELSE LET timepoint == utp[idx + 1]
                 groups    == Subwells(evs, parent.wells, timepoint)
                 Nodes(ord) == [i \in 1..Len(ord) |->
                                  LineageNode(parent.id, ChildId(parent.id, i - 1),
                                              ord[i], timepoint)]
                 Attached(ord) == [parent EXCEPT !.children =
                                      [i \in 1..Len(ord) |-> Nodes(ord)[i].id]]
             IN  UNION {
                   {{Attached(ord)} \cup below :
                       below \in Combine([i \in 1..Len(ord) |->
                                            BuildTree(evs, Nodes(ord)[i], idx)], 1)}
                   : ord \in Orderings(groups)}

RootNode(evs) ==
    LineageNode(NoParent, <<Stock>>, TimelineWellIds(evs, NoTimepoint),
                UniqueTimepoints(evs)[1])

\* get_lineage_tree on a timeline with events
LineageTrees(evs) == BuildTree(evs, RootNode(evs), 0)

Init ==
    /\ plates = [p \in {} |-> P6]
    /\ events = <<>>
    /\ ret = [op |-> "init", args |-> <<>>, ok |-> TRUE, val |-> <<>>]

AddPlate(plate_id, plate_format) ==
    /\ plates' = [p \in DOMAIN plates \cup {plate_id} |->
                     IF p = plate_id THEN plate_format ELSE plates[p]]
    /\ ret' = [op |-> "add_plate", args |-> <<plate_id, plate_format>>,
               ok |-> TRUE, val |-> <<>>]
    /\ UNCHANGED events

AddEvent(timepoint, action, plate_id, well_ids) ==
    /\ Len(events) < MaxEvents
    /\ LET evt == Event(Len(events) + 1, timepoint, action, plate_id, well_ids)
       IN  /\ events' = Inserted(events, evt)
           /\ ret' = [op |-> "add_event",
                      args |-> <<timepoint, action, plate_id, well_ids>>,
                      ok |-> TRUE, val |-> evt]
    /\ UNCHANGED plates

GetEventList ==
    /\ ret' = [op |-> "get_event_list", args |-> <<>>, ok |-> TRUE, val |-> events]
    /\ UNCHANGED <<plates, events>>

GetUniqueTimepoints ==
    /\ ret' = [op |-> "get_unique_timepoints", args |-> <<>>, ok |-> TRUE,
               val |-> UniqueTimepoints(events)]
    /\ UNCHANGED <<plates, events>>

GetEventsAtTimepoint(timepoint) ==
    /\ ret' = [op |-> "get_events_at_timepoint", args |-> <<timepoint>>, ok |-> TRUE,
               val |-> EventsAtTimepoint(events, timepoint)]
    /\ UNCHANGED <<plates, events>>

GetEventsInWell(well, timepoint) ==
    /\ ret' = [op |-> "get_events_in_well", args |-> <<well, timepoint>>, ok |-> TRUE,
               val |-> EventsInWell(events, well, timepoint)]
    /\ UNCHANGED <<plates, events>>

GetWellIds(timepoint) ==
    /\ ret' = [op |-> "get_well_ids", args |-> <<timepoint>>, ok |-> TRUE,
               val |-> TimelineWellIds(events, timepoint)]
    /\ UNCHANGED <<plates, events>>

GetEventPermutations(timepoint) ==
    /\ ret' = IF PermRaises(plates, events, timepoint)
              THEN [op |-> "get_event_permutations", args |-> <<timepoint>>,
                    ok |-> FALSE, val |-> "KeyError"]
              ELSE [op |-> "get_event_permutations", args |-> <<timepoint>>,
                    ok |-> TRUE, val |-> EventPermutations(plates, events, timepoint)]
    /\ UNCHANGED <<plates, events>>

GetWellPermutations(timepoint, plate_format) ==
    /\ ret' = [op |-> "get_well_permutations", args |-> <<timepoint, plate_format>>,
               ok |-> TRUE, val |-> WellPermutations(events, timepoint, plate_format)]
    /\ UNCHANGED <<plates, events>>

\* A variant of GetLineageTreeRaises that returns a tree without nodes.
GetLineageTreeReturnsNothing ==
    /\ Len(events) = 0
    /\ ret' = [op |-> "get_lineage_tree", args |-> <<>>, ok |-> TRUE, val |-> {}]
    /\ UNCHANGED <<plates, events>>

\* get_unique_timepoints()[0] raises IndexError on a timeline without events,
\* before any node is made.
GetLineageTreeRaises ==
    /\ Len(events) = 0
    /\ ret' = [op |-> "get_lineage_tree", args |-> <<>>, ok |-> FALSE,
               val |-> "IndexError"]
    /\ UNCHANGED <<plates, events>>

GetLineageTree ==
    /\ Len(events) > 0
    /\ \E tree \in LineageTrees(events) :
          ret' = [op |-> "get_lineage_tree", args |-> <<>>, ok |-> TRUE, val |-> tree]
    /\ UNCHANGED <<plates, events>>

Next ==
    \/ \E p \in PlateIds, f \in PlateFormats : AddPlate(p, f)
    \/ \E t \in Timepoints, a \in Actions, p \in PlateIds, w \in WellChoices :
          AddEvent(t, a, p, w)
    \/ GetEventList
    \/ GetUniqueTimepoints
    \/ \E t \in Timepoints : GetEventsAtTimepoint(t)
    \/ \E w \in QueryWells, t \in Timepoints : GetEventsInWell(w, t)
    \/ \E t \in Timepoints \cup {NoTimepoint} : GetWellIds(t)
    \/ \E t \in Timepoints : GetEventPermutations(t)
    \/ \E t \in Timepoints, f \in PlateFormats : GetWellPermutations(t, f)
    \/ GetLineageTreeRaises
    \/ GetLineageTree

Spec == Init /\ [][Next]_vars

\* ------------------------------------------- the operations taken in groups
\* The timeline with the well queries.
NextWells ==
    \/ \E t \in Timepoints, a \in Actions, p \in PlateIds, w \in WellChoices :
          AddEvent(t, a, p, w)
    \/ \E w \in QueryWells, t \in Timepoints : GetEventsInWell(w, t)
    \/ \E t \in Timepoints, f \in PlateFormats : GetWellPermutations(t, f)

SpecWells == Init /\ [][NextWells]_vars

\* The timeline with the lineage tree builder.
NextTree ==
    \/ \E t \in Timepoints, a \in Actions, p \in PlateIds, w \in WellChoices :
          AddEvent(t, a, p, w)
    \/ GetUniqueTimepoints
    \/ GetLineageTreeRaises
    \/ GetLineageTree

SpecTree == Init /\ [][NextTree]_vars

\* The plate registry, the timeline and the event permutations.
NextPerm ==
    \/ \E p \in PlateIds, f \in PlateFormats : AddPlate(p, f)
    \/ \E t \in Timepoints, a \in Actions, p \in PlateIds, w \in WellChoices :
          AddEvent(t, a, p, w)
    \/ \E t \in Timepoints : GetEventPermutations(t)

SpecPerm == Init /\ [][NextPerm]_vars

\* The timeline with the queries whose results are compared across call orders.
NextOrder ==
    \/ \E t \in Timepoints, a \in Actions, p \in PlateIds, w \in WellChoices :
          AddEvent(t, a, p, w)
    \/ GetUniqueTimepoints
    \/ \E t \in Timepoints \cup {NoTimepoint} : GetWellIds(t)
    \/ \E t \in Timepoints, f \in PlateFormats : GetWellPermutations(t, f)
    \/ GetLineageTree

SpecOrder == Init /\ [][NextOrder]_vars

\* ------------------------------------------------- vocabulary of the claims
EventSet == Range(events)

IsTree == ret.op = "get_lineage_tree" /\ ret.ok

\* The nodes of a tree that are children of node n, and n's i-th child.
ChildrenOf(tree, n) == {c \in tree : c.parent = n.id}

ChildAt(tree, n, i) == CHOOSE c \in tree : c.id = n.children[i]

\* The position of a timepoint in get_unique_timepoints() (1-based).
TpIndex(evs, tp) ==
    CHOOSE i \in 1..Len(UniqueTimepoints(evs)) : UniqueTimepoints(evs)[i] = tp

HasLaterTimepoint(evs, n) == TpIndex(evs, n.timepoint) < Len(UniqueTimepoints(evs))

\* The smallest well id of a non-empty set of wells, in string order.
MinWell(W) == CHOOSE w \in W : \A v \in W : v = w \/ StrLess(w, v)

\* C1: whatever add_event calls made the timeline, get_well_permutations(t,
\* geometry) returns the equivalence classes of the geometry's wells under
\* "the same events at t touch both": every well is in exactly one group, the
\* groups are disjoint and non-empty, their union is the well set, and two
\* wells share a group iff get_events_in_well gives them the same events.
C1_WellPermutationsPartition ==
    ret.op = "get_well_permutations" =>
        LET t      == ret.args[1]
            W      == Range(WellIdList(ret.args[2]))
            groups == ret.val
            Sig(w) == {e \in EventSet : e.timepoint = t /\ w \in e.wells}
        IN  /\ \A w \in W : Cardinality({g \in groups : w \in g}) = 1
            /\ \A g1, g2 \in groups : g1 # g2 => g1 \cap g2 = {}
            /\ UNION groups = W
            /\ \A w1, w2 \in W :
                  (\E g \in groups : w1 \in g /\ w2 \in g) <=> Sig(w1) = Sig(w2)
            /\ \A w \in W : Range(EventsInWell(events, w, t)) = Sig(w)

\* A partition with three groups: wells under one event, under two, under none.
C1_Witness ==
    /\ ret.op = "get_well_permutations"
    /\ Cardinality(ret.val) >= 3
    /\ \E i, j \in 1..Len(events) : i < j /\ events[i].timepoint > events[j].timepoint

\* C2: in the tree, for every node with a later unique timepoint, the union
\* of its children's wells is the node's wells restricted to the wells of the
\* geometry registered for the plates the timeline's events are on.
C2_ChildrenCoverPlateWells ==
    (IsTree /\ \A e \in EventSet : e.plate \in DOMAIN plates) =>
        LET plateWells == UNION {Range(WellIdList(plates[e.plate])) : e \in EventSet}
        IN  \A n \in ret.val :
               HasLaterTimepoint(events, n) =>
                  UNION {c.wells : c \in ChildrenOf(ret.val, n)} = n.wells \cap plateWells

\* C3: the event sequence is sorted ascending by timepoint.
C3_EventsAscending ==
    \A i, j \in 1..Len(events) :
        i < j => events[i].timepoint <= events[j].timepoint

\* C6: events with the same timepoint are stored in the order they were added.
C6_TiesInInsertionOrder ==
    \A i, j \in 1..Len(events) :
        (i < j /\ events[i].timepoint = events[j].timepoint) =>
            events[i].oid < events[j].oid

\* C8: the children of every node are in ascending order of their smallest
\* well id, so the child with id '<parent>:i' is the i-th in that order.
C8_ChildrenCanonicalOrder ==
    IsTree =>
        \A n \in ret.val : \A i, j \in 1..Len(n.children) :
            i < j => StrLess(MinWell(ChildAt(ret.val, n, i).wells),
                             MinWell(ChildAt(ret.val, n, j).wells))

\* C4: every non-root node's wells are a non-empty subset of its parent's
\* wells, the wells of distinct siblings are disjoint, and the single root has
\* no parent and holds the union of the wells of all events.
C4_NodeWellsRefineParent ==
    IsTree =>
        LET T == ret.val
        IN  /\ Cardinality({n \in T : n.parent = NoParent}) = 1
            /\ \A n \in T : n.parent = NoParent =>
                  n.wells = UNION {e.wells : e \in EventSet}
            /\ \A n \in T : n.parent # NoParent =>
                  /\ n.wells # {}
                  /\ \E p \in T : p.id = n.parent /\ n.wells \subseteq p.wells
            /\ \A a, b \in T :
                  (a # b /\ a.parent = b.parent /\ a.parent # NoParent) =>
                      a.wells \cap b.wells = {}

\* A tree two levels deep in which some node has two children.
C4_Witness ==
    /\ IsTree
    /\ \E n \in ret.val : Len(n.children) >= 2
    /\ \E n \in ret.val : Len(n.id) = 3
    /\ \E n \in ret.val : n.parent = NoParent /\ C01 \in n.wells

\* C5: on a timeline with no events get_unique_timepoints returns the empty
\* list and get_lineage_tree raises instead of returning a tree, and after
\* the failed call the event sequence is still empty.
C5_EmptyTimeline ==
    /\ (ret.op = "get_unique_timepoints" /\ Len(events) = 0) => ret.val = <<>>
    /\ (ret.op = "get_lineage_tree" /\ Len(events) = 0) => ~ret.ok
    /\ (ret.op = "get_lineage_tree" /\ ~ret.ok) => events = <<>>

C5_Witness ==
    /\ ret.op = "get_lineage_tree"
    /\ ~ret.ok
    /\ Len(events) = 0

\* C9: get_lineage_tree returns on every non-empty timeline; the root is at
\* the earliest unique timepoint, every child is at the unique timepoint that
\* follows its parent's, and a node is a leaf exactly when there is no later
\* unique timepoint or no group of the partition at the next one meets its
\* wells.
C9_TreeFollowsTimepoints ==
    /\ Len(events) > 0 => LineageTrees(events) # {}
    /\ IsTree =>
          LET T   == ret.val
              utp == UniqueTimepoints(events)
              NoGroupMeets(n) ==
                  \A g \in WellPermutations(events,
                                            utp[TpIndex(events, n.timepoint) + 1],
                                            TreeFormat) : g \cap n.wells = {}
          IN  /\ \A n \in T : n.parent = NoParent => n.timepoint = utp[1]
              /\ \A n \in T : n.parent # NoParent =>
                    \E q \in T : /\ q.id = n.parent
                                 /\ TpIndex(events, n.timepoint)
                                      = TpIndex(events, q.timepoint) + 1
              /\ \A n \in T : Len(n.id) = TpIndex(events, n.timepoint)
              /\ \A n \in T :
                    /\ {n.children[i] : i \in 1..Len(n.children)}
                          = {c.id : c \in ChildrenOf(T, n)}
                    /\ (Len(n.children) = 0) <=>
                          IF HasLaterTimepoint(events, n) THEN NoGroupMeets(n) ELSE TRUE

\* A tree over three unique timepoints whose root has children and grandchildren.
C9_Witness ==
    /\ IsTree
    /\ Len(UniqueTimepoints(events)) = 3
    /\ \E n \in ret.val : Len(n.id) = 3

\* C7 as stated: get_event_permutations(t) is the set of the event-sets of
\* every well listed by some event at t, whether or not the well is a well of
\* the geometry registered for the event's plate.
C7_EveryListedWellCounts ==
    (ret.op = "get_event_permutations" /\ ret.ok) =>
        LET t      == ret.args[1]
            atT    == {e \in EventSet : e.timepoint = t}
            listed == UNION {e.wells : e \in atT}
        IN  ret.val = {{e \in atT : w \in e.wells} : w \in listed}

\* C7 amended: the call raises iff an event at t is on an unregistered plate;
\* otherwise its result is the set of the non-empty event-sets
\* { events e at t that list w and whose plate's geometry has w }, w ranging
\* over the wells listed at t.
C7_ListedWellsOfThePlateCount ==
    ret.op = "get_event_permutations" =>
        LET t      == ret.args[1]
            atT    == {e \in EventSet : e.timepoint = t}
            listed == UNION {e.wells : e \in atT}
            OnPlate(e, w) == w \in e.wells /\ w \in Range(WellIdList(plates[e.plate]))
        IN  /\ ret.ok <=> \A e \in atT : e.plate \in DOMAIN plates
            /\ ret.ok =>
                  /\ ret.val = {{e \in atT : OnPlate(e, w)} : w \in listed} \ {{}}
                  /\ {} \notin ret.val

\* Two events at t, one listing a well that its plate does not have.
C7_Witness ==
    /\ ret.op = "get_event_permutations"
    /\ ret.ok
    /\ Cardinality(ret.val) >= 2
    /\ \E e \in EventSet : /\ e.timepoint = ret.args[1]
                           /\ C01 \in e.wells
                           /\ C01 \notin Range(WellIdList(plates[e.plate]))

\* The timelines that add_event builds from a set of events, the calls made
\* in every order: the last call adds e to a timeline of the other events.
RECURSIVE TimelinesOf(_)
TimelinesOf(S) ==
    IF S = {} THEN {<<>>}
    ELSE UNION {{Inserted(tl, e) : tl \in TimelinesOf(S \ {e})} : e \in S}

Reorderings(evs) == TimelinesOf(Range(evs))

\* The (depth, timepoint, wells) triples of the nodes of a tree.
TreeLevels(tree) == {<<Len(n.id) - 1, n.timepoint, n.wells>> : n \in tree}

\* C10: the results of get_unique_timepoints, get_well_ids, the groups of
\* get_well_permutations and the (depth, timepoint, wells) of the lineage
\* nodes are those of every timeline made by the same add_event calls in
\* another order.
C10_ResultsIgnoreCallOrder ==
    \A other \in Reorderings(events) :
        /\ ret.op = "get_unique_timepoints" => ret.val = UniqueTimepoints(other)
        /\ ret.op = "get_well_ids" => ret.val = TimelineWellIds(other, ret.args[1])
        /\ ret.op = "get_well_permutations" =>
              ret.val = WellPermutations(other, ret.args[1], ret.args[2])
        /\ IsTree =>
              \A tree \in LineageTrees(other) : TreeLevels(tree) = TreeLevels(ret.val)

\* A tree of a timeline stored out of ascending order, which another call
\* order would have stored differently.
C10_Witness ==
    /\ IsTree
    /\ \E i, j \in 1..Len(events) : i < j /\ events[i].timepoint > events[j].timepoint
    /\ \E other \in Reorderings(events) : UniqueTimepoints(other) # <<>> /\ other # events
    /\ \E n \in ret.val : Len(n.children) >= 2

====
